---- MODULE Spec2Model ----
(***************************************************************************)
(* Model of docs/.mkdocs-gen/generate_api_nav.py: the script that builds   *)
(* ecss/SUMMARY.md from the bullet list of ecss/annotated.md.              *)
(*                                                                         *)
(* Text is a sequence of one-character strings.  A file's content is the   *)
(* sequence of the lines that iterating the file yields: every line but    *)
(* possibly the last ends with "\n", and no line holds another "\n".       *)
(***************************************************************************)
EXTENDS Integers, Sequences, FiniteSets, TLC

VARIABLES
    mkdocs_files,    \* mkdocs_gen_files.files: the descriptors, in the collaborator's order
    fs,              \* abs_src_path -> the lines of the file at that path
    pc,              \* position of the script
    files,           \* line 7: the sorted list
    annotated_file,  \* lines 8-13: the located descriptor, or None
    afile,           \* line 17: the read handle, "closed" or "open"
    lineno,          \* number of lines the loop of line 18 has consumed
    nav,             \* line 5: the output lines
    nav_file,        \* line 34: the write handle, "closed" or "open"
    summary,         \* content stored at ecss/SUMMARY.md
    stdout,          \* messages printed by this invocation
    opened,          \* paths this invocation tried to open for reading
    prior,           \* content of ecss/SUMMARY.md when this invocation started
    invocation,      \* 1 for the first run of the script, 2 for the run after it
    previous         \* <<summary left by the completed previous run>>, or <<>>

vars == <<mkdocs_files, fs, pc, files, annotated_file, afile, lineno, nav,
          nav_file, summary, stdout, opened, prior, invocation, previous>>

(***************************************************************************)
(* Bounds of the input sets.                                               *)
(***************************************************************************)
MaxFiles == 2
MaxLines == 2
MaxNameLen == 3
MaxSpaces == 9

(***************************************************************************)
(* Characters.                                                             *)
(***************************************************************************)
Ascii ==
    <<" ", "!", "DQUOTE", "#", "$", "%", "&", "'", "(", ")", "*", "+", ",", "-", ".", "/",
      "0", "1", "2", "3", "4", "5", "6", "7", "8", "9", ":", ";", "<", "=", ">", "?",
      "@", "A", "B", "C", "D", "E", "F", "G", "H", "I", "J", "K", "L", "M", "N", "O",
      "P", "Q", "R", "S", "T", "U", "V", "W", "X", "Y", "Z", "[", "BACKSLASH", "]", "^", "_",
      "BACKTICK", "a", "b", "c", "d", "e", "f", "g", "h", "i", "j", "k", "l", "m", "n", "o",
      "p", "q", "r", "s", "t", "u", "v", "w", "x", "y", "z", "{", "|", "}", "~">>

\* Code point of a character (printable ASCII, tab and newline; the double
\* quote, the backslash and the backtick are spelled out in the table).
CodePoint ==
    [c \in {Ascii[i] : i \in 1..Len(Ascii)} \cup {"\t", "\n"} |->
        IF c = "\t" THEN 9
        ELSE IF c = "\n" THEN 10
        ELSE 31 + (CHOOSE i \in 1..Len(Ascii) : Ascii[i] = c)]

Ord(c) == CodePoint[c]

\* str.lower() on one character.
LowerChar(c) ==
    IF Ord(c) >= 65 /\ Ord(c) <= 90 THEN Ascii[Ord(c) + 32 - 31] ELSE c

\* str.lower()
lower(s) == [i \in 1..Len(s) |-> LowerChar(s[i])]

\* The characters str.strip() with no argument removes.
IsWhitespace(c) == c \in {" ", "\t", "\n", "\r", "\f"}

Spaces(n) == [i \in 1..n |-> " "]

\* Python's < on str: lexicographic by code point, a proper prefix first.
RECURSIVE StrLess(_, _)
StrLess(a, b) ==
    IF b = <<>> THEN FALSE
    ELSE IF a = <<>> THEN TRUE
    ELSE IF Head(a) = Head(b) THEN StrLess(Tail(a), Tail(b))
    ELSE Ord(Head(a)) < Ord(Head(b))

(***************************************************************************)
(* Literals of the script.                                                 *)
(***************************************************************************)
Header ==
    <<"*", " ", "[", "A", "P", "I", " ", "R", "e", "f", "e", "r", "e", "n", "c", "e",
      "]", "(", "a", "n", "n", "o", "t", "a", "t", "e", "d", ".", "m", "d", ")">>

AnnotatedUri ==
    <<"e", "c", "s", "s", "/", "a", "n", "n", "o", "t", "a", "t", "e", "d", ".", "m", "d">>

Message ==
    <<">", ">", ">", " ", "G", "e", "n", "e", "r", "a", "t", "e", "d", " ", "t", "r",
      "e", "e", " ", "S", "U", "M", "M", "A", "R", "Y", ".", "m", "d">>

IndentUnit == 4

\* Line 32: the text repeated once per indent level.
IndentText == <<" ", " ", " ", " ">>

\* annotated_file = None
None == [src_uri |-> <<>>, abs_src_path |-> "None"]

(***************************************************************************)
(* Lines 7-13: sorted(mkdocs_gen_files.files, key=str) and the scan.       *)
(***************************************************************************)
\* str(f) of a mkdocs File is "File(src_uri='<src_uri>', dest_uri=...)", the
\* rest derived from src_uri: two keys compare as src_uri followed by the
\* closing quote.
SortKey(f) == f.src_uri \o <<"'">>

\* Insert f after every element whose key is not greater (sorted() is stable).
RECURSIVE InsertSorted(_, _)
InsertSorted(f, s) ==
    IF s = <<>> THEN <<f>>
    ELSE IF StrLess(SortKey(f), SortKey(Head(s))) THEN <<f>> \o s
    ELSE <<Head(s)>> \o InsertSorted(f, Tail(s))

\* Changed: the collection is scanned in the order it came in.
sorted_unsorted(s) == s

RECURSIVE sorted(_)
sorted(s) ==
    IF s = <<>> THEN <<>>
    ELSE InsertSorted(s[Len(s)], sorted(SubSeq(s, 1, Len(s) - 1)))

\* Changed: src.lower().startswith("ecss/annotated.md")
IsAnnotated_prefix(f) ==
    Len(f.src_uri) >= Len(AnnotatedUri)
        /\ lower(SubSeq(f.src_uri, 1, Len(AnnotatedUri))) = AnnotatedUri

\* Line 11: src.lower() == "ecss/annotated.md"
IsAnnotated(f) == lower(f.src_uri) = AnnotatedUri

\* Lines 8-13: the first element of fl the test accepts, else None.
RECURSIVE Scan(_)
Scan(fl) ==
    IF fl = <<>> THEN None
    ELSE IF IsAnnotated(Head(fl)) THEN Head(fl)
    ELSE Scan(Tail(fl))

(***************************************************************************)
(* Lines 19-32: one line of the annotated file.                            *)
(***************************************************************************)
RECURSIVE lstrip(_)
lstrip(s) ==
    IF s # <<>> /\ IsWhitespace(Head(s)) THEN lstrip(Tail(s)) ELSE s

RECURSIVE rstrip(_)
rstrip(s) ==
    IF s # <<>> /\ IsWhitespace(s[Len(s)]) THEN rstrip(SubSeq(s, 1, Len(s) - 1)) ELSE s

\* line.strip()
strip(s) == rstrip(lstrip(s))

\* Changed: line.lstrip(), which strips tabs and newlines too.
lstrip_spaces_any(s) == lstrip(s)

\* line.lstrip(" ")
RECURSIVE lstrip_spaces(_)
lstrip_spaces(s) ==
    IF s # <<>> /\ Head(s) = " " THEN lstrip_spaces(Tail(s)) ELSE s

startswith(s, p) == Len(s) >= Len(p) /\ SubSeq(s, 1, Len(p)) = p

\* Line 19: the test whose failure skips the line.
IsBullet(line) == startswith(strip(line), <<"*">>)

\* Line 22
Indent(line) == (Len(line) - Len(lstrip_spaces(line))) \div IndentUnit

\* First index >= i of s holding stop, or Len(s) + 1: the end of a greedy
\* run of [^stop].
RECURSIVE RunEnd(_, _, _)
RunEnd(s, i, stop) ==
    IF i > Len(s) \/ s[i] = stop THEN i ELSE RunEnd(s, i + 1, stop)

\* Changed: the pattern \[([^\]]*)\]\(([^)]+)\), which accepts an empty name.
MatchAt_empty_name(s, i) ==
    IF s[i] # "[" THEN <<>>
    ELSE LET j == RunEnd(s, i + 1, "]")
         IN  IF j > Len(s) THEN <<>>
             ELSE IF j + 1 > Len(s) \/ s[j + 1] # "(" THEN <<>>
             ELSE LET k == RunEnd(s, j + 2, ")")
                  IN  IF k = j + 2 \/ k > Len(s) THEN <<>>
                      ELSE <<SubSeq(s, i + 1, j - 1), SubSeq(s, j + 2, k - 1)>>

\* The match of \[([^\]]+)\]\(([^)]+)\) anchored at index i: <<name, link>>,
\* or <<>> when the pattern does not match there.
MatchAt(s, i) ==
    IF s[i] # "[" THEN <<>>
    ELSE LET j == RunEnd(s, i + 1, "]")
         IN  IF j = i + 1 \/ j > Len(s) THEN <<>>
             ELSE IF j + 1 > Len(s) \/ s[j + 1] # "(" THEN <<>>
             ELSE LET k == RunEnd(s, j + 2, ")")
                  IN  IF k = j + 2 \/ k > Len(s) THEN <<>>
                      ELSE <<SubSeq(s, i + 1, j - 1), SubSeq(s, j + 2, k - 1)>>

\* Line 24: re.search tries the start positions from the left.
RECURSIVE SearchFrom(_, _)
SearchFrom(s, i) ==
    IF i > Len(s) THEN <<>>
    ELSE IF MatchAt(s, i) # <<>> THEN MatchAt(s, i)
    ELSE SearchFrom(s, i + 1)

re_search(line) == SearchFrom(line, 1)

\* str.replace(old, new): the non-overlapping occurrences, left to right.
RECURSIVE replace(_, _, _)
replace(s, old, new) ==
    IF s = <<>> THEN <<>>
    ELSE IF startswith(s, old) THEN new \o replace(SubSeq(s, Len(old) + 1, Len(s)), old, new)
    ELSE <<Head(s)>> \o replace(Tail(s), old, new)

\* Changed: the spaces are kept.
NormalizeName_keep_spaces(name) ==
    replace(replace(name, <<"*", "*">>, <<>>), <<":", ":">>, <<".">>)

\* Changed: "::" is replaced before the stars and the spaces are removed.
NormalizeName_colons_first(name) ==
    replace(replace(replace(name, <<":", ":">>, <<".">>), <<"*", "*">>, <<>>), <<" ">>, <<>>)

\* Lines 29-30
NormalizeName(name) ==
    replace(replace(replace(name, <<"*", "*">>, <<>>), <<" ">>, <<>>), <<":", ":">>, <<".">>)

\* "    " * n
RECURSIVE Repeat(_, _)
Repeat(s, n) == IF n <= 0 THEN <<>> ELSE s \o Repeat(s, n - 1)

\* Line 32: the rendered entry.
Render(indent, name, link) ==
    Repeat(IndentText, indent) \o <<"*", " ", "[">> \o name \o <<"]", "(">> \o link \o <<")">>

\* Changed: an entry already in the list is not appended again.
ProcessLine_dedup(n, line) ==
    IF ~IsBullet(line) THEN n
    ELSE LET m == re_search(line)
         IN  IF m = <<>> THEN n
             ELSE LET e == Render(Indent(line), NormalizeName(m[1]), m[2])
                  IN  IF \E i \in 1..Len(n) : n[i] = e THEN n ELSE Append(n, e)

\* Lines 19-32: the list after the loop body has run on line.
ProcessLine(n, line) ==
    IF ~IsBullet(line) THEN n
    ELSE LET m == re_search(line)
         IN  IF m = <<>> THEN n
             ELSE Append(n, Render(Indent(line), NormalizeName(m[1]), m[2]))

\* Line 35: "\n".join(nav)
RECURSIVE join(_)
join(ls) ==
    IF ls = <<>> THEN <<>>
    ELSE IF Len(ls) = 1 THEN ls[1]
    ELSE ls[1] \o <<"\n">> \o join(Tail(ls))

(***************************************************************************)
(* Inputs: the file collection and the content of the files.               *)
(***************************************************************************)
File(uri, path) == [src_uri |-> uri, abs_src_path |-> path]

LowerFile == File(AnnotatedUri, "/docs/ecss/annotated.md")

UpperFile ==
    File(<<"E", "C", "S", "S", "/", "A", "n", "n", "o", "t", "a", "t", "e", "d", ".", "m", "d">>,
         "/docs/ECSS/Annotated.md")

\* A second descriptor with the source URI of LowerFile.
TwinFile == File(AnnotatedUri, "/gen/ecss/annotated.md")

BackupFile ==
    File(AnnotatedUri \o <<".", "b", "a", "k">>, "/docs/ecss/annotated.md.bak")

FilePool == {LowerFile, UpperFile, TwinFile, BackupFile}

Paths == {f.abs_src_path : f \in FilePool}

SeqsUpTo(S, n) == UNION {[1..k -> S] : k \in 0..n}

\* The collections: up to MaxFiles descriptors, none twice, in any order.
FileLists ==
    {s \in SeqsUpTo(FilePool, MaxFiles) : \A i, j \in 1..Len(s) : i # j => s[i] # s[j]}

\* What iterating a file yields for the given line bodies: "\n" ends every
\* line, the last one only when the file ends with a newline.
AsLines(bodies, finalNewline) ==
    [i \in 1..Len(bodies) |->
        IF i < Len(bodies) \/ finalNewline THEN bodies[i] \o <<"\n">> ELSE bodies[i]]

RootLine ==
    <<"*", " ", "[", "*", "*", "R", "o", "o", "t", "*", "*", "]", "(", "r", "o", "o", "t",
      ".", "m", "d", ")">>

ChildLine ==
    <<" ", " ", " ", " ", "*", " ", "[", "C", "h", "i", "l", "d", ":", ":", "S", "u", "b",
      "]", "(", "c", "h", "i", "l", "d", ".", "m", "d", ")">>

FooLine ==
    <<"*", " ", "[", "*", "*", "F", "o", "o", ":", ":", "B", "a", "r", " ", "B", "a", "z",
      "*", "*", "]", "(", "x", ")">>

HeadingLine == <<"#", " ", "A", "P", "I">>

TextBulletLine == <<"*", " ", "t", "e", "x", "t">>

\* Line bodies of the multi-line files.
BuildBodies == {RootLine, ChildLine, HeadingLine, TextBulletLine}

BuildContents == {AsLines(b, nl) : b \in SeqsUpTo(BuildBodies, MaxLines), nl \in BOOLEAN}

\* The content of every file but /docs/ecss/annotated.md.
OtherContent == <<<<"*", " ", "[", "o", "]", "(", "o", ")", "\n">>>>

Link == <<"b">>

Bullet(lead, name, link) ==
    lead \o <<"*", " ", "[">> \o name \o <<"]", "(">> \o link \o <<")">>

\* Bullets whose name is any string over NameChars up to MaxNameLen.
NameChars == {"*", " ", ":", "a"}

NameBodies == {Bullet(<<>>, n, Link) : n \in SeqsUpTo(NameChars, MaxNameLen)}

\* Bullets led by up to MaxSpaces spaces, with a tab before or after them.
IndentBodies ==
    {pre \o Spaces(n) \o post \o Bullet(<<>>, <<"a">>, Link) :
        pre \in {<<>>, <<"\t">>}, post \in {<<>>, <<"\t">>}, n \in 0..MaxSpaces}

Skeleton == <<"*", "[", "a", "]", "(", "b", ")">>

RECURSIVE Pick(_, _, _)
Pick(s, keep, i) ==
    IF i > Len(s) THEN <<>>
    ELSE (IF i \in keep THEN <<s[i]>> ELSE <<>>) \o Pick(s, keep, i + 1)

\* "*[a](b)" with any of its characters left out.
DroppedBodies == {Pick(Skeleton, keep, 1) : keep \in SUBSET (1..Len(Skeleton))}

\* "*[a](b)" with one more character put in anywhere.
InsertedBodies ==
    {SubSeq(Skeleton, 1, i) \o <<c>> \o SubSeq(Skeleton, i + 1, Len(Skeleton)) :
        i \in 0..Len(Skeleton), c \in {"[", "]", "(", ")", " ", "*", "x"}}

\* Lines with more than one candidate for the match.
TwoLinkBodies ==
    {Bullet(<<>>, <<"a">>, Link) \o <<" ">> \o SubSeq(Bullet(<<>>, <<"c">>, <<"d">>), 3, 8),
     <<"*", " ", "[", "x", "]", " ", "[", "a", "]", "(", "b", ")">>,
     <<"*", " ", "[", "x", "]", "(", ")", "[", "a", "]", "(", "b", ")", " ", "t">>,
     <<"x", " ", "*", " ", "[", "a", "]", "(", "b", ")">>}

ParseBodies ==
    NameBodies \cup IndentBodies \cup DroppedBodies \cup InsertedBodies
        \cup TwoLinkBodies \cup {FooLine, RootLine, ChildLine}

\* One-line files.
ParseContents == {AsLines(<<b>>, nl) : b \in ParseBodies, nl \in BOOLEAN}

StaleSummary == Header \o <<"\n", "*", " ", "[", "O", "l", "d", "]", "(", "o", ".", "m", "d", ")">>

\* What ecss/SUMMARY.md may hold before the first run.
PriorContents == {<<>>, StaleSummary}

(***************************************************************************)
(* The script as a state machine.                                          *)
(***************************************************************************)
Content == fs[annotated_file.abs_src_path]

Init ==
    /\ \E c \in BuildContents \cup ParseContents :
          /\ fs = [p \in Paths |-> IF p = LowerFile.abs_src_path THEN c ELSE OtherContent]
          /\ IF c \in BuildContents
                THEN mkdocs_files \in FileLists
                ELSE mkdocs_files = <<LowerFile>>
    /\ summary \in PriorContents
    /\ prior = summary
    /\ pc = "start"
    /\ files = <<>>
    /\ annotated_file = None
    /\ afile = "closed"
    /\ lineno = 0
    /\ nav = <<>>
    /\ nav_file = "closed"
    /\ stdout = <<>>
    /\ opened = <<>>
    /\ invocation = 1
    /\ previous = <<>>

\* Lines 5-13
Locate ==
    /\ pc = "start"
    /\ nav' = <<Header>>
    /\ files' = sorted(mkdocs_files)
    /\ annotated_file' = Scan(files')
    /\ pc' = "located"
    /\ UNCHANGED <<mkdocs_files, fs, afile, lineno, nav_file, summary, stdout, opened,
                   prior, invocation, previous>>

\* Line 16, annotated_file is None: the read is skipped.
NotFound ==
    /\ pc = "located"
    /\ annotated_file = None
    /\ pc' = "write"
    /\ UNCHANGED <<mkdocs_files, fs, files, annotated_file, afile, lineno, nav, nav_file,
                   summary, stdout, opened, prior, invocation, previous>>

\* Lines 16-17: open() succeeds.
OpenRead ==
    /\ pc = "located"
    /\ annotated_file # None
    /\ opened' = Append(opened, annotated_file.abs_src_path)
    /\ afile' = "open"
    /\ lineno' = 0
    /\ pc' = "reading"
    /\ UNCHANGED <<mkdocs_files, fs, files, annotated_file, nav, nav_file, summary, stdout,
                   prior, invocation, previous>>

\* Lines 16-17: open() raises; nothing catches it.
OpenReadFail ==
    /\ pc = "located"
    /\ annotated_file # None
    /\ opened' = Append(opened, annotated_file.abs_src_path)
    /\ pc' = "read_failed"
    /\ UNCHANGED <<mkdocs_files, fs, files, annotated_file, afile, lineno, nav, nav_file,
                   summary, stdout, prior, invocation, previous>>

\* Lines 18-32: one iteration of the loop.
ReadLine ==
    /\ pc = "reading"
    /\ lineno < Len(Content)
    /\ nav' = ProcessLine(nav, Content[lineno + 1])
    /\ lineno' = lineno + 1
    /\ UNCHANGED <<mkdocs_files, fs, pc, files, annotated_file, afile, nav_file, summary,
                   stdout, opened, prior, invocation, previous>>

\* Changed: the entries gathered so far are written before the failure
\* leaves the script.
ReadFail_flush ==
    /\ pc = "reading"
    /\ lineno < Len(Content)
    /\ afile' = "closed"
    /\ summary' = join(nav)
    /\ pc' = "read_failed"
    /\ UNCHANGED <<mkdocs_files, fs, files, annotated_file, lineno, nav, nav_file, stdout,
                   opened, prior, invocation, previous>>

\* Line 18: reading the next line raises; the with statement closes the file
\* and nothing catches the exception.
ReadFail ==
    /\ pc = "reading"
    /\ lineno < Len(Content)
    /\ afile' = "closed"
    /\ pc' = "read_failed"
    /\ UNCHANGED <<mkdocs_files, fs, files, annotated_file, lineno, nav, nav_file, summary,
                   stdout, opened, prior, invocation, previous>>

\* Lines 17-18: the file is exhausted and the with statement closes it.
CloseRead ==
    /\ pc = "reading"
    /\ lineno = Len(Content)
    /\ afile' = "closed"
    /\ pc' = "write"
    /\ UNCHANGED <<mkdocs_files, fs, files, annotated_file, lineno, nav, nav_file, summary,
                   stdout, opened, prior, invocation, previous>>

\* Changed: mode "a", which keeps what the file holds.
OpenWrite_append ==
    /\ pc = "write"
    /\ nav_file' = "open"
    /\ pc' = "writing"
    /\ UNCHANGED <<mkdocs_files, fs, files, annotated_file, afile, lineno, nav, summary,
                   stdout, opened, prior, invocation, previous>>

\* Line 34: mode "w" truncates.
OpenWrite ==
    /\ pc = "write"
    /\ nav_file' = "open"
    /\ summary' = <<>>
    /\ pc' = "writing"
    /\ UNCHANGED <<mkdocs_files, fs, files, annotated_file, afile, lineno, nav, stdout,
                   opened, prior, invocation, previous>>

\* Line 34: the open raises.
OpenWriteFail ==
    /\ pc = "write"
    /\ pc' = "write_failed"
    /\ UNCHANGED <<mkdocs_files, fs, files, annotated_file, afile, lineno, nav, nav_file,
                   summary, stdout, opened, prior, invocation, previous>>

\* Changed: the message is printed inside the with block, after the write.
Write_and_print ==
    /\ pc = "writing"
    /\ summary' = summary \o join(nav)
    /\ stdout' = Append(stdout, Message)
    /\ pc' = "written"
    /\ UNCHANGED <<mkdocs_files, fs, files, annotated_file, afile, lineno, nav, nav_file,
                   opened, prior, invocation, previous>>

\* Line 35
Write ==
    /\ pc = "writing"
    /\ summary' = summary \o join(nav)
    /\ pc' = "written"
    /\ UNCHANGED <<mkdocs_files, fs, files, annotated_file, afile, lineno, nav, nav_file,
                   stdout, opened, prior, invocation, previous>>

\* Line 35: the write raises; the with statement closes the file.
WriteFail ==
    /\ pc = "writing"
    /\ nav_file' = "closed"
    /\ pc' = "write_failed"
    /\ UNCHANGED <<mkdocs_files, fs, files, annotated_file, afile, lineno, nav, summary,
                   stdout, opened, prior, invocation, previous>>

\* Lines 34-35: the with statement closes the file.
CloseWrite ==
    /\ pc = "written"
    /\ nav_file' = "closed"
    /\ pc' = "print"
    /\ UNCHANGED <<mkdocs_files, fs, files, annotated_file, afile, lineno, nav, summary,
                   stdout, opened, prior, invocation, previous>>

\* Line 37
PrintMessage ==
    /\ pc = "print"
    /\ stdout' = Append(stdout, Message)
    /\ pc' = "done"
    /\ UNCHANGED <<mkdocs_files, fs, files, annotated_file, afile, lineno, nav, nav_file,
                   summary, opened, prior, invocation, previous>>

\* The script is run again on the same inputs: a fresh module body.  Until
\* then ecss/SUMMARY.md keeps what the first run wrote, or is replaced.
RunAgain ==
    /\ pc = "done"
    /\ invocation = 1
    /\ invocation' = 2
    /\ previous' = <<summary>>
    /\ summary' \in {summary} \cup PriorContents
    /\ prior' = summary'
    /\ pc' = "start"
    /\ files' = <<>>
    /\ annotated_file' = None
    /\ lineno' = 0
    /\ nav' = <<>>
    /\ stdout' = <<>>
    /\ opened' = <<>>
    /\ UNCHANGED <<mkdocs_files, fs, afile, nav_file>>

Next ==
    \/ Locate
    \/ NotFound
    \/ OpenRead
    \/ OpenReadFail
    \/ ReadLine
    \/ ReadFail
    \/ CloseRead
    \/ OpenWrite
    \/ OpenWriteFail
    \/ Write
    \/ WriteFail
    \/ CloseWrite
    \/ PrintMessage
    \/ RunAgain

Spec == Init /\ [][Next]_vars

(***************************************************************************)
(* Properties.                                                             *)
(***************************************************************************)
\* The summary has been written in full by this run.
Written == pc \in {"written", "print", "done"}

\* The text split at every "\n".
RECURSIVE SplitLines(_)
SplitLines(text) ==
    LET cut == RunEnd(text, 1, "\n")
    IN  IF cut > Len(text) THEN <<text>>
        ELSE <<SubSeq(text, 1, cut - 1)>> \o SplitLines(SubSeq(text, cut + 1, Len(text)))

\* Some descriptor of the collection has the annotated URI, whatever its case.
SomeAnnotated == \E i \in 1..Len(mkdocs_files) : lower(mkdocs_files[i].src_uri) = AnnotatedUri

\* C1: when no descriptor's lower-cased source URI is "ecss/annotated.md",
\* the run opens no source file and what it writes to ecss/SUMMARY.md is the
\* header line alone, with no newline after it.
C1_HeaderOnly ==
    ~SomeAnnotated =>
        /\ opened = <<>>
        /\ Written =>
              /\ summary = Header
              /\ \A i \in 1..Len(summary) : summary[i] # "\n"

\* A run over a non-empty collection without the annotated file has replaced
\* a stale summary.
C1_Witness ==
    /\ ~SomeAnnotated
    /\ mkdocs_files # <<>>
    /\ prior = StaleSummary
    /\ pc = "done"

\* The entries of the lines of a content, each line taken on its own.
RECURSIVE EntriesOf(_)
EntriesOf(content) ==
    IF content = <<>> THEN <<>>
    ELSE ProcessLine(<<>>, Head(content)) \o EntriesOf(Tail(content))

\* C2: the written document is the header followed by one rendered line for
\* each line of the annotated file that yields an entry, in file order, with
\* nothing merged or dropped: 1 + (number of such lines) lines in all.
C2_OrderPreserved ==
    (Written /\ annotated_file # None) =>
        /\ SplitLines(summary) = <<Header>> \o EntriesOf(Content)
        /\ Len(SplitLines(summary)) =
              1 + Cardinality({i \in 1..Len(Content) : ProcessLine(<<>>, Content[i]) # <<>>})

\* Two identical bullets have been written as two identical lines.
C2_Witness ==
    /\ pc = "done"
    /\ annotated_file # None
    /\ Len(Content) = 2
    /\ Content[1] = Content[2]
    /\ Len(SplitLines(summary)) = 3

\* The step that runs the loop body on the next line of the annotated file.
LineStep == pc = "reading" /\ lineno' = lineno + 1

\* The line the loop of the current state has just consumed.
LastLine == Content[lineno]

\* The loop has consumed exactly the first line of the annotated file.
AfterFirstLine == pc = "reading" /\ lineno = 1

\* Stripped of the whitespace around it, the line starts with "*".
StartsWithStar(line) ==
    \E i \in 1..Len(line) :
        /\ line[i] = "*"
        /\ \A j \in 1..(i - 1) : IsWhitespace(line[j])

\* line[a] = "[", line[b] = "]" directly followed by "(", line[d] = ")", with
\* a non-empty name free of "]" between a and b and a non-empty link free of
\* ")" between b + 1 and d.
Occurrence(line, a, b, d) ==
    /\ line[a] = "["
    /\ line[b] = "]"
    /\ b + 1 <= Len(line)
    /\ line[b + 1] = "("
    /\ line[d] = ")"
    /\ a + 1 < b
    /\ b + 2 < d
    /\ \A k \in (a + 1)..(b - 1) : line[k] # "]"
    /\ \A k \in (b + 2)..(d - 1) : line[k] # ")"

\* Some occurrence starts at index a.
OccursAt(line, a) ==
    /\ line[a] = "["
    /\ \E b \in (a + 2)..Len(line) :
          /\ line[b] = "]"
          /\ \E d \in (b + 3)..Len(line) : Occurrence(line, a, b, d)

HasLink(line) == \E a \in 1..Len(line) : OccursAt(line, a)

\* C3: the loop body adds an entry only for a line that, stripped, starts
\* with "*" and holds an occurrence of [name](link) with a non-empty name
\* free of "]" and a non-empty link free of ")"; on every other line it
\* leaves the list as it is and goes on to the next line without an error.
C3_OnlyLinkedBullets ==
    [][LineStep =>
          LET line == Content[lineno']
              ok == StartsWithStar(line) /\ HasLink(line)
          IN  /\ nav' # nav => ok
              /\ ~ok => (nav' = nav /\ pc' = "reading")]_vars

\* A bullet without a link has been consumed and has added nothing.
C3_Witness ==
    /\ AfterFirstLine
    /\ StartsWithStar(LastLine)
    /\ ~HasLink(LastLine)
    /\ nav = <<Header>>

\* The number of space characters the line starts with.
LeadingSpaces(line) ==
    CHOOSE n \in 0..Len(line) :
        /\ \A i \in 1..n : line[i] = " "
        /\ n < Len(line) => line[n + 1] # " "

\* C4: the entry of an accepted line with n leading spaces starts with
\* exactly 4 * floor(n / 4) spaces and then "* ["; 8 spaces give two units;
\* tabs and other whitespace before the bullet count for nothing.
C4_IndentTruncates ==
    [][(LineStep /\ Len(nav') > Len(nav)) =>
          LET line == Content[lineno']
              n == LeadingSpaces(line)
              k == 4 * (n \div 4)
              e == nav'[Len(nav')]
          IN  /\ Len(e) >= k + 3
              /\ \A i \in 1..k : e[i] = " "
              /\ SubSeq(e, k + 1, k + 3) = <<"*", " ", "[">>
              /\ n = 8 => k = 8
              /\ line[1] = "\t" => k = 0]_vars

\* A bullet behind 9 spaces has been rendered behind 8.
C4_Witness ==
    /\ AfterFirstLine
    /\ LeadingSpaces(LastLine) = 9
    /\ Len(nav) = 2
    /\ SubSeq(nav[2], 1, 9) = Spaces(8) \o <<"*">>

\* s from index i on, without the occurrences of pat met from the left.
RECURSIVE Without(_, _, _)
Without(s, pat, i) ==
    IF i > Len(s) THEN <<>>
    ELSE IF i + Len(pat) - 1 <= Len(s) /\ SubSeq(s, i, i + Len(pat) - 1) = pat
         THEN Without(s, pat, i + Len(pat))
    ELSE <<s[i]>> \o Without(s, pat, i + 1)

NotSpace(c) == c # " "

\* s from index i on, with "." for every "::" met from the left.
RECURSIVE ColonsToDots(_, _)
ColonsToDots(s, i) ==
    IF i > Len(s) THEN <<>>
    ELSE IF i < Len(s) /\ s[i] = ":" /\ s[i + 1] = ":" THEN <<".">> \o ColonsToDots(s, i + 2)
    ELSE <<s[i]>> \o ColonsToDots(s, i + 1)

\* The display name of a matched name: "**" removed, then the spaces, then
\* "::" turned into ".".
DisplayName(name) == ColonsToDots(SelectSeq(Without(name, <<"*", "*">>, 1), NotSpace), 1)

\* <<name, link>> of the leftmost occurrence of [name](link) in the line.
FirstLink(line) ==
    LET a == CHOOSE x \in 1..Len(line) :
                 OccursAt(line, x) /\ \A y \in 1..(x - 1) : ~OccursAt(line, y)
        b == CHOOSE x \in (a + 2)..Len(line) :
                 line[x] = "]" /\ \E d \in (x + 3)..Len(line) : Occurrence(line, a, x, d)
        d == CHOOSE x \in (b + 3)..Len(line) : Occurrence(line, a, b, x)
    IN  <<SubSeq(line, a + 1, b - 1), SubSeq(line, b + 2, d - 1)>>

FooEntry ==
    <<"*", " ", "[", "F", "o", "o", ".", "B", "a", "r", "B", "a", "z", "]", "(", "x", ")">>

\* C5: the entry of an accepted line holds, between "[" and "](", the first
\* match's name with "**" removed, then spaces removed, then "::" replaced
\* by ".", and between "(" and ")" that match's link unchanged; the name
\* "**Foo::Bar Baz**" is written as "Foo.BarBaz".
C5_NameNormalized ==
    [][(LineStep /\ Len(nav') > Len(nav)) =>
          LET line == Content[lineno']
              m == FirstLink(line)
              e == nav'[Len(nav')]
              k == 4 * (LeadingSpaces(line) \div 4)
          IN  /\ e = Spaces(k) \o <<"*", " ", "[">> \o DisplayName(m[1])
                       \o <<"]", "(">> \o m[2] \o <<")">>
              /\ startswith(line, FooLine) => e = FooEntry]_vars

\* The bullet named "**Foo::Bar Baz**" has been consumed and rendered.
C5_Witness ==
    /\ AfterFirstLine
    /\ startswith(LastLine, FooLine)
    /\ Len(nav) = 2

\* C6: a second run on the same inputs leaves at ecss/SUMMARY.md exactly
\* what the first run left, whatever the file held when the second run began.
C6_Idempotent ==
    (pc = "done" /\ previous # <<>>) => summary = previous[1]

\* The second run has finished over a file that did not hold the first
\* run's output, and the output has entries.
C6_Witness ==
    /\ pc = "done"
    /\ previous # <<>>
    /\ prior # previous[1]
    /\ Len(nav) > 1

\* C7: when the annotated file cannot be opened or read, the run stops for
\* good after its one attempt, ecss/SUMMARY.md holds what it held when the
\* run began, and nothing has been printed.
C7_ReadFailureWritesNothing ==
    pc = "read_failed" =>
        /\ summary = prior
        /\ stdout = <<>>
        /\ nav_file = "closed"
        /\ afile = "closed"
        /\ Len(opened) = 1
        /\ ~ENABLED Next

\* The read failed after an entry had been gathered, with a stale summary
\* in place.
C7_Witness ==
    /\ pc = "read_failed"
    /\ Len(nav) > 1
    /\ prior = StaleSummary

\* a sorts before b as text: they differ first at some index where a's
\* character has the smaller code point, or a is a proper prefix of b.
LexLess(a, b) ==
    \E k \in 1..(Len(b)) :
        /\ \A i \in 1..(k - 1) : i <= Len(a) /\ a[i] = b[i]
        /\ \/ k = Len(a) + 1
           \/ k <= Len(a) /\ Ord(a[k]) < Ord(b[k])

\* An upper-case letter with its lower-case form.
CasePairs == {<<Ascii[i], Ascii[i + 32]>> : i \in 34..59}

\* The URI is "ecss/annotated.md" up to the case of its letters.
SameIgnoringCase(uri) ==
    /\ Len(uri) = Len(AnnotatedUri)
    /\ \A k \in 1..Len(uri) :
          \/ uri[k] = AnnotatedUri[k]
          \/ <<uri[k], AnnotatedUri[k]>> \in CasePairs

\* The indices in the collection of the descriptors with such a URI.
Matching == {i \in 1..Len(mkdocs_files) : SameIgnoringCase(mkdocs_files[i].src_uri)}

\* C8: the located descriptor is the first one, in the collection sorted by
\* source URI (stably: equal URIs keep their order), whose URI is
\* "ecss/annotated.md" whatever its case; it is the only file the run opens.
C8_FirstMatchInSortedOrder ==
    pc # "start" =>
        LET ms == Matching
        IN  IF ms = {}
            THEN annotated_file = None /\ opened = <<>>
            ELSE LET first == CHOOSE i \in ms :
                                  \A j \in ms \ {i} :
                                      \/ LexLess(mkdocs_files[i].src_uri, mkdocs_files[j].src_uri)
                                      \/ mkdocs_files[i].src_uri = mkdocs_files[j].src_uri /\ i < j
                 IN  /\ annotated_file = mkdocs_files[first]
                     /\ \A i \in 1..Len(opened) :
                            opened[i] = mkdocs_files[first].abs_src_path

\* The upper-case variant came last in the collection and is the one read.
C8_Witness ==
    /\ mkdocs_files = <<LowerFile, UpperFile>>
    /\ opened = <<UpperFile.abs_src_path>>
    /\ pc = "done"

\* C9: the message is printed once, in every run that reaches its end, found
\* or not, and only when the document is written in full and the write
\* handle closed; the read handle is closed before the write handle opens.
C9_MessageAfterWrite ==
    /\ stdout # <<>> =>
          /\ stdout = <<Message>>
          /\ nav_file = "closed"
          /\ afile = "closed"
          /\ SplitLines(summary) = nav
    /\ pc = "done" => stdout = <<Message>>
    /\ nav_file = "open" => afile = "closed"

\* The message has been printed by a run that found no annotated file.
C9_Witness ==
    /\ pc = "done"
    /\ annotated_file = None
    /\ stdout = <<Message>>
    /\ summary = Header

\* The display name of a written entry: what stands between the first "["
\* and the first "]".
NameOf(entry) == SubSeq(entry, RunEnd(entry, 1, "[") + 1, RunEnd(entry, 1, "]") - 1)

Contains(s, pat) ==
    \E i \in 1..(Len(s) - Len(pat) + 1) : SubSeq(s, i, i + Len(pat) - 1) = pat

\* The entry lines of the written document.
WrittenEntries == IF Written THEN Tail(SplitLines(summary)) ELSE <<>>

\* C10, as claimed: every written entry's display name is non-empty and
\* holds no space, no "**" and no "::".
C10_AsClaimed ==
    \A i \in 1..Len(WrittenEntries) :
        LET n == NameOf(WrittenEntries[i])
        IN  /\ n # <<>>
            /\ ~Contains(n, <<" ">>)
            /\ ~Contains(n, <<"*", "*">>)
            /\ ~Contains(n, <<":", ":">>)

\* C10, amended: every written entry's display name holds no space and no
\* "::" (it may be empty, and may hold "**").
C10_NoSpaceNoDoubleColon ==
    \A i \in 1..Len(WrittenEntries) :
        LET n == NameOf(WrittenEntries[i])
        IN  /\ ~Contains(n, <<" ">>)
            /\ ~Contains(n, <<":", ":">>)

\* An entry has been written for a name that held spaces and "::".
C10_Witness ==
    /\ pc = "done"
    /\ annotated_file # None
    /\ Len(Content) = 1
    /\ HasLink(Content[1])
    /\ Contains(FirstLink(Content[1])[1], <<" ">>)
    /\ Contains(FirstLink(Content[1])[1], <<":", ":">>)
    /\ Len(WrittenEntries) = 1

====
